---- MODULE Spec2Model ----
(***************************************************************************)
(* Model of dimgame/chatbot-py:                                            *)
(*   src/libs/av/tv_movie/client.py    SearchBox._search (failover         *)
(*                                     dispatcher), HistoryManager         *)
(*   src/libs/chatgpt/fakeopen/client.py  ChatBox, ChatBoxPool, ChatClient *)
(*                                                                         *)
(* Four specifications share the variables:                                *)
(*   SpecSearch   dispatches over one box's engine list, one at a time     *)
(*   SpecOverlap  SearchBox._ask_question with its tasks and the dispatch  *)
(*                threads it starts, which may overlap                     *)
(*   SpecHistory  HistoryManager.add_command / commands                    *)
(*   SpecChat     ChatClient.request / process with the session pool       *)
(***************************************************************************)
EXTENDS Integers, Sequences, FiniteSets, TLC

VARIABLES
    \* ---- SearchBox (tv_movie/client.py)
    engines,    \* SearchBox.__engines: the ordered, shared engine list
    original,   \* the engine list the box was created with
    boxTask,    \* SearchBox.__task: the current Task, NoTask for None
    tasks,      \* the Tasks the box has created
    cancelled,  \* the Tasks whose cancel() was called
    pc,         \* per dispatch: "idle", "spawned", "loop", "call", "check",
                \*               "insert", "done"
    taskOf,     \* per dispatch: the Task it was started for, NoTask if none
    engine,     \* per dispatch: local `engine`
    count,      \* per dispatch: local `count`
    index,      \* per dispatch: local `index`
    failed,     \* per dispatch: local `failed`
    result,     \* per dispatch: return value of _search ("none" until it returns)
    calls,      \* per dispatch: the engine calls it made, <<[engine, raised, code]>>
    reports,    \* per dispatch: what it reported to the Monitor, in order
    responded,  \* per dispatch: number of _respond_204 calls
    start,      \* per dispatch: the engine list when the dispatch started
    final,      \* per dispatch: the engine list when the dispatch returned
    moved,      \* per dispatch: the engine it moved to the front, 0 if none
    atCancel,   \* per dispatch: what it had done when its Task was cancelled
                \*               during an engine call, NoSnapshot otherwise
    \* ---- HistoryManager (tv_movie/client.py)
    commands,   \* HistoryManager.__commands
    snapshot,   \* the last list returned by the `commands` property
    \* ---- ChatBoxPool / ChatClient (chatgpt/fakeopen/client.py)
    clock,      \* time.time()
    ticks,      \* number of clock advances so far
    queue,      \* ChatTaskPool: pending tasks
    nextTask,   \* id of the next ChatTask
    boxMap,     \* ChatBoxPool.__map (weak values): user -> box or NoBox
    boxes,      \* ChatBoxPool.__boxes (strong references)
    expired,    \* ChatBox.__expired, per box
    nextBox,    \* id of the next ChatBox instance
    nextPurge,  \* ChatBoxPool.__next_purge_time
    \* ---- history of the chat client, kept for the properties
    touched,    \* per box: time of its last ask
    owner,      \* per box: the user it was made for
    given,      \* per user: the box the last get_box returned, NoBox if none
    lastScan,   \* time of the last scan of purge, -1 before the first
    purgeCalled, \* time of the last call of purge, -1 before the first
    purged,     \* boxes a scanning purge has removed
    last,       \* the last task process() handled: [task, user, box, kind, escaped]
    lastCallback, \* id of the task of the last callback invocation, 0 if none
    numCallbacks, \* number of callback invocations
    lastResponse  \* per user: box and expiry at the user's last callback

dispatchVars == <<pc, taskOf, engine, count, index, failed, result, calls, reports,
                  responded, start, final, moved, atCancel>>
searchVars == <<engines, original, boxTask, tasks, cancelled, dispatchVars>>
historyVars == <<commands, snapshot>>
chatVars == <<clock, ticks, queue, nextTask, boxMap, boxes, expired, nextBox, nextPurge,
              touched, owner, given, lastScan, purgeCalled, purged, last, lastCallback,
              numCallbacks, lastResponse>>
vars == <<searchVars, historyVars, chatVars>>

----------------------------------------------------------------------------
\* Bounds of the model
MaxEngines == 3       \* engines a box may hold
HistExtra == 2        \* add_command calls allowed beyond MAX_LENGTH
MaxTicks == 3         \* clock advances
MaxTasks == 2         \* requests enqueued in a run
MaxQueries == 2       \* queries a box receives in a run

\* Program constants
CANCELLED_CODE == -205
FAULT_CODE == -500
MAX_LENGTH == 50
EXPIRES == 36000
PURGE_INTERVAL == 60

Engines == 1..MaxEngines
\* the dispatches (_search coroutines) of the box that the model tracks
Dispatches == {"d1", "d2"}
\* the dispatch that runs alone
Sequential == {"d1"}
NoTask == 0
NoSnapshot == [calls |-> -1, reports |-> -1, responded |-> -1, moved |-> -1]
Users == {"U1", "U2"}
NoBox == 0

----------------------------------------------------------------------------
\* Sequence helpers
IsInjective(s) == \A i, j \in DOMAIN s : s[i] = s[j] => i = j

\* list.pop(i) leaves this list (i is 0-based)
ListWithout(list, i) ==
    [k \in 1..(Len(list) - 1) |-> IF k <= i THEN list[k] ELSE list[k + 1]]

\* the list with every occurrence of e dropped, order kept
RECURSIVE Drop(_, _)
Drop(list, e) ==
    IF list = <<>> THEN <<>>
    ELSE IF Head(list) = e THEN Drop(Tail(list), e)
    ELSE <<Head(list)>> \o Drop(Tail(list), e)

----------------------------------------------------------------------------
\* SearchBox._search

\* What engine.search(task) can do: return a code or raise
EngineOutcomes ==
    [raised : {FALSE}, code : {200, 0, CANCELLED_CODE, -404, FAULT_CODE}]
        \cup [raised : {TRUE}, code : {0}]

\* try: code = await engine.search(task)  except Exception: code = -500
CodeOf(outcome) == IF outcome.raised THEN FAULT_CODE ELSE outcome.code

CodeClassCancelIsFailure(code) ==
    IF code > 0 THEN "success"
    ELSE IF code < 0 THEN "failure"
    ELSE "next"

CodeClassZeroIsSuccess(code) ==
    IF code >= 0 THEN "success"
    ELSE IF code = CANCELLED_CODE THEN "cancelled"
    ELSE "failure"

CodeClassZeroIsFailure(code) ==
    IF code > 0 THEN "success"
    ELSE IF code = CANCELLED_CODE THEN "cancelled"
    ELSE "failure"

\* the if / elif chain on the return code
CodeClass(code) ==
    IF code > 0 THEN "success"
    ELSE IF code = CANCELLED_CODE THEN "cancelled"
    ELSE IF code < 0 THEN "failure"
    ELSE "next"

ShouldRespond204OnlyIfAllFailed(idx, cnt, fld) == fld = cnt

\* if index == count: await _respond_204(...)
ShouldRespond204(idx, cnt, fld) == idx = cnt

ShouldCrashUnlessAllFailed(fld, cnt) == fld # cnt

ShouldCrashNever(fld, cnt) == FALSE

\* if failed == count: monitor.report_crash(...); return False
ShouldCrash(fld, cnt) == fld = cnt

ListInsertBack(list, e) == list \o <<e>>

\* list.insert(0, e)
ListInsertFront(list, e) == <<e>> \o list

CancelCurrentForgotten(set, current) == set

\* Task.cancel
TaskCancel(set, task) == set \cup {task}

\* SearchBox._cancel_task: the cancelled Tasks after it
CancelCurrent(set, current) == IF current = NoTask THEN set ELSE TaskCancel(set, current)

EngineLists ==
    {s \in UNION {[1..n -> Engines] : n \in 0..MaxEngines} : IsInjective(s)}

InitDispatchVars ==
    /\ pc = [p \in Dispatches |-> "idle"]
    /\ taskOf = [p \in Dispatches |-> NoTask]
    /\ engine = [p \in Dispatches |-> 0]
    /\ count = [p \in Dispatches |-> 0]
    /\ index = [p \in Dispatches |-> 0]
    /\ failed = [p \in Dispatches |-> 0]
    /\ result = [p \in Dispatches |-> "none"]
    /\ calls = [p \in Dispatches |-> <<>>]
    /\ reports = [p \in Dispatches |-> <<>>]
    /\ responded = [p \in Dispatches |-> 0]
    /\ start = [p \in Dispatches |-> <<>>]
    /\ final = [p \in Dispatches |-> <<>>]
    /\ moved = [p \in Dispatches |-> 0]
    /\ atCancel = [p \in Dispatches |-> NoSnapshot]

InitSearchVars ==
    /\ original = engines
    /\ boxTask = NoTask
    /\ tasks = {}
    /\ cancelled = {}
    /\ InitDispatchVars

Running(p) == pc[p] \in {"spawned", "loop", "call", "check", "insert"}

\* _search up to the loop: count = len(all_engines); if count == 0: return False
SearchEnter(p) ==
    /\ count' = [count EXCEPT ![p] = Len(engines)]
    /\ index' = [index EXCEPT ![p] = 0]
    /\ failed' = [failed EXCEPT ![p] = 0]
    /\ engine' = [engine EXCEPT ![p] = 0]
    /\ calls' = [calls EXCEPT ![p] = <<>>]
    /\ reports' = [reports EXCEPT ![p] = <<>>]
    /\ responded' = [responded EXCEPT ![p] = 0]
    /\ start' = [start EXCEPT ![p] = engines]
    /\ final' = [final EXCEPT ![p] = engines]
    /\ moved' = [moved EXCEPT ![p] = 0]
    /\ IF Len(engines) = 0
       THEN /\ pc' = [pc EXCEPT ![p] = "done"]
            /\ result' = [result EXCEPT ![p] = "false"]
       ELSE /\ pc' = [pc EXCEPT ![p] = "loop"]
            /\ result' = [result EXCEPT ![p] = "none"]
    /\ UNCHANGED <<engines, original, boxTask, tasks, cancelled, taskOf, atCancel,
                   historyVars, chatVars>>

\* a dispatch called while no other runs
SearchStart(p) ==
    /\ pc[p] \in {"idle", "done"}
    /\ \A q \in Dispatches : ~Running(q)
    /\ SearchEnter(p)

\* the thread started by _ask_question enters _search
SearchBegin(p) ==
    /\ pc[p] = "spawned"
    /\ SearchEnter(p)

\* an IndexError leaves _search
RaiseIndexError(p) ==
    /\ pc' = [pc EXCEPT ![p] = "done"]
    /\ result' = [result EXCEPT ![p] = "error"]
    /\ final' = [final EXCEPT ![p] = engines]
    /\ UNCHANGED <<engines, engine>>

\* while index < count: engine = all_engines[index]; the call of engine.search
SearchInvoke(p) ==
    /\ pc[p] = "loop"
    /\ index[p] < count[p]
    /\ IF index[p] < Len(engines)
       THEN /\ engine' = [engine EXCEPT ![p] = engines[index[p] + 1]]
            /\ pc' = [pc EXCEPT ![p] = "call"]
            /\ UNCHANGED <<engines, result, final>>
       ELSE RaiseIndexError(p)
    /\ UNCHANGED <<original, boxTask, tasks, cancelled, taskOf, count, index, failed, calls,
                   reports, responded, start, moved, atCancel, historyVars, chatVars>>

\* engine.search returns or raises: the rest of the iteration
SearchReturn(p, outcome) ==
    /\ pc[p] = "call"
    /\ LET code == CodeOf(outcome)
           class == CodeClass(code)
           nextIndex == IF class \in {"failure", "next"} THEN index[p] + 1 ELSE index[p]
       IN  /\ calls' = [calls EXCEPT ![p] =
                   Append(@, [engine |-> engine[p], raised |-> outcome.raised, code |-> code])]
           /\ reports' = [reports EXCEPT ![p] =
                   IF class = "success" THEN Append(@, [kind |-> "success", agent |-> engine[p]])
                   ELSE IF class = "failure"
                        THEN Append(@, [kind |-> "failure", agent |-> engine[p]])
                   ELSE @]
           /\ failed' = [failed EXCEPT ![p] = IF class = "failure" THEN @ + 1 ELSE @]
           /\ index' = [index EXCEPT ![p] = nextIndex]
           /\ pc' = [pc EXCEPT ![p] =
                   IF class = "cancelled" THEN "done"
                   ELSE IF class = "success" \/ nextIndex >= count[p] THEN "check"
                   ELSE "loop"]
           /\ result' = [result EXCEPT ![p] = IF class = "cancelled" THEN "false" ELSE @]
    /\ final' = [final EXCEPT ![p] = engines]
    /\ UNCHANGED <<engines, original, boxTask, tasks, cancelled, taskOf, engine, count,
                   responded, start, moved, atCancel, historyVars, chatVars>>

SearchCall(p) == \E outcome \in EngineOutcomes : SearchReturn(p, outcome)

\* "2. check result", up to engine = self.__engines.pop(index)
SearchCheck(p) ==
    /\ pc[p] = "check"
    /\ responded' = [responded EXCEPT ![p] =
            IF ShouldRespond204(index[p], count[p], failed[p]) THEN @ + 1 ELSE @]
    /\ IF ShouldCrash(failed[p], count[p])
       THEN /\ reports' = [reports EXCEPT ![p] = Append(@, [kind |-> "crash", agent |-> 0])]
            /\ result' = [result EXCEPT ![p] = "false"]
            /\ pc' = [pc EXCEPT ![p] = "done"]
            /\ final' = [final EXCEPT ![p] = engines]
            /\ UNCHANGED <<engines, engine>>
       ELSE /\ UNCHANGED reports
            /\ IF 0 < index[p] /\ index[p] < count[p]
               THEN IF index[p] < Len(engines)
                    THEN /\ engines' = ListWithout(engines, index[p])
                         /\ engine' = [engine EXCEPT ![p] = engines[index[p] + 1]]
                         /\ pc' = [pc EXCEPT ![p] = "insert"]
                         /\ UNCHANGED <<result, final>>
                    ELSE RaiseIndexError(p)
               ELSE /\ result' = [result EXCEPT ![p] = "true"]
                    /\ pc' = [pc EXCEPT ![p] = "done"]
                    /\ final' = [final EXCEPT ![p] = engines]
                    /\ UNCHANGED <<engines, engine>>
    /\ UNCHANGED <<original, boxTask, tasks, cancelled, taskOf, count, index, failed, calls,
                   start, moved, atCancel, historyVars, chatVars>>

\* self.__engines.insert(0, engine); return True
SearchInsert(p) ==
    /\ pc[p] = "insert"
    /\ engines' = ListInsertFront(engines, engine[p])
    /\ moved' = [moved EXCEPT ![p] = engine[p]]
    /\ result' = [result EXCEPT ![p] = "true"]
    /\ pc' = [pc EXCEPT ![p] = "done"]
    /\ final' = [final EXCEPT ![p] = engines']
    /\ UNCHANGED <<original, boxTask, tasks, cancelled, taskOf, engine, count, index, failed,
                   calls, reports, responded, start, atCancel, historyVars, chatVars>>

----------------------------------------------------------------------------
\* HistoryManager

\* self.__commands.append({...})
AppendCommand(list, entry) == Append(list, entry)

InitHistoryVars ==
    /\ commands = <<>>
    /\ snapshot = <<>>

\* HistoryManager.add_command; `when` is the number of the call
add_command(cmd) ==
    /\ Len(commands) < MAX_LENGTH + HistExtra
    /\ commands' = AppendCommand(commands, [cmd |-> cmd, when |-> Len(commands) + 1])
    /\ UNCHANGED <<snapshot, searchVars, chatVars>>

\* HistoryManager.commands: a copy of the list
read_commands ==
    /\ snapshot # commands
    /\ snapshot' = commands
    /\ UNCHANGED <<commands, searchVars, chatVars>>

----------------------------------------------------------------------------
\* SearchBox._ask_question

\* the queries a box receives: empty after strip(), a system command, the
\* history command, the two TV commands, anything else
Keywords == {"", "cancel", "show history", "tv channels", "live stream sources", "movie"}

\* what a dispatch had done when its Task is cancelled during an engine call,
\* that call counted
SnapshotAtCancel(p) ==
    [calls |-> Len(calls[p]) + 1, reports |-> Len(reports[p]),
     responded |-> responded[p], moved |-> moved[p]]

\* SearchBox._ask_question from "1. check keywords" on
AskQuestion(keywords) ==
    /\ Len(commands) < MaxQueries
    /\ IF keywords = ""
       THEN UNCHANGED <<boxTask, tasks, cancelled, pc, taskOf, atCancel, commands, snapshot>>
       ELSE LET task == Len(commands) + 1
                history == AppendCommand(commands, [cmd |-> keywords, when |-> task])
                stopped == {q \in Dispatches : boxTask # NoTask /\ taskOf[q] = boxTask
                                                /\ pc[q] = "call"}
                noted == [q \in Dispatches |->
                             IF q \in stopped THEN SnapshotAtCancel(q) ELSE atCancel[q]]
            IN  /\ cancelled' = CancelCurrent(cancelled, boxTask)
                /\ commands' = history
                /\ IF keywords \in {"cancel", "show history"}
                   THEN /\ boxTask' = NoTask
                        /\ snapshot' = IF keywords = "show history" THEN history ELSE snapshot
                        /\ atCancel' = noted
                        /\ UNCHANGED <<tasks, pc, taskOf>>
                   ELSE /\ tasks' = tasks \cup {task}
                        /\ boxTask' = task
                        /\ UNCHANGED snapshot
                        /\ IF keywords \in {"tv channels", "live stream sources"}
                           THEN /\ atCancel' = noted
                                /\ UNCHANGED <<pc, taskOf>>
                           ELSE \E p \in Dispatches :
                                    /\ pc[p] \in {"idle", "done"}
                                    /\ pc' = [pc EXCEPT ![p] = "spawned"]
                                    /\ taskOf' = [taskOf EXCEPT ![p] = task]
                                    /\ atCancel' = [noted EXCEPT ![p] = NoSnapshot]
    /\ UNCHANGED <<engines, original, engine, count, index, failed, result, calls, reports,
                   responded, start, final, moved, chatVars>>

----------------------------------------------------------------------------
\* ChatBox, ChatBoxPool, ChatTaskPool, ChatClient

\* what FakeOpen.ask can do: return an answer, return None, or raise
AskOutcomes == {"answer", "none", "raise"}

\* the time the clock may advance by in one step
Delays == {PURGE_INTERVAL \div 2, EXPIRES}

IsExpiredAlways(boxExpired, now) == TRUE

\* ChatBox.is_expired
is_expired(boxExpired, now) == now > boxExpired

PrepareKeep(boxExpired, now) == boxExpired

\* ChatBox.__prepare: the new value of __expired
Prepare(boxExpired, now) == now + EXPIRES

LookupMiss(map, user) == NoBox

\* self.__map.get(identifier)
Lookup(map, user) == map[user]

NextPurgeTimeNow(now) == now

\* self.__next_purge_time = now + 60
NextPurgeTime(now) == now + PURGE_INTERVAL

AddBoxForgotten(set, box) == set

\* self.__boxes.add(box)
AddBox(set, box) == set \cup {box}

\* what the task's callback (ChatTask.chat_response) can do: return or raise
CallbackOutcomes == {"ok", "raise"}

\* ChatTaskPool.add_task
add_task(pool, task) == Append(pool, task)

\* ChatTaskPool.pop_task: the task popped (the pool is not empty)
pop_task(pool) == Head(pool)

\* answer = '{"code": 404, ...}' when the box gave None
AnswerOrFallback(outcome) == IF outcome = "none" THEN "404" ELSE outcome

\* time passes
Tick ==
    /\ ticks < MaxTicks
    /\ \E d \in Delays : clock' = clock + d
    /\ ticks' = ticks + 1
    /\ UNCHANGED <<queue, nextTask, boxMap, boxes, expired, nextBox, nextPurge, touched,
                   owner, given, lastScan, purgeCalled, purged, last, lastCallback, numCallbacks,
                   lastResponse, searchVars, historyVars>>

\* ChatClient.request
request(user) ==
    /\ nextTask <= MaxTasks
    /\ queue' = add_task(queue, [id |-> nextTask, user |-> user, at |-> clock])
    /\ nextTask' = nextTask + 1
    /\ UNCHANGED <<clock, ticks, boxMap, boxes, expired, nextBox, nextPurge, touched,
                   owner, given, lastScan, purgeCalled, purged, last, lastCallback, numCallbacks,
                   lastResponse, searchVars, historyVars>>

\* ChatBoxPool.purge. A box discarded from __boxes has lost its last strong
\* reference when purge returns, so its entry of the WeakValueDictionary is gone.
purge ==
    LET now == clock
        gone == {b \in boxes : is_expired(expired[b], now)}
    IN  IF now < nextPurge
        THEN UNCHANGED <<nextPurge, boxes, boxMap, purged, lastScan>>
        ELSE /\ nextPurge' = NextPurgeTime(now)
             /\ boxes' = boxes \ gone
             /\ boxMap' = [u \in Users |-> IF boxMap[u] \in gone THEN NoBox ELSE boxMap[u]]
             /\ purged' = purged \cup gone
             /\ lastScan' = now

\* ChatClient.process with an empty task pool
ProcessIdle ==
    /\ queue = <<>>
    /\ purge
    /\ purgeCalled' = clock
    /\ UNCHANGED <<clock, ticks, queue, nextTask, expired, nextBox, touched, owner, given,
                   last, lastCallback, numCallbacks, lastResponse, searchVars, historyVars>>

\* ChatClient.process with a task: get_box, ask, chat_response
ProcessTask ==
    /\ queue # <<>>
    /\ \E outcome \in AskOutcomes, called \in CallbackOutcomes :
        LET task == pop_task(queue)
            found == Lookup(boxMap, task.user)
            isNew == found = NoBox
            box == IF isNew THEN nextBox ELSE found
            before == IF isNew THEN clock + EXPIRES ELSE expired[box]
            after == Prepare(before, clock)
            answer == AnswerOrFallback(outcome)
        IN  /\ queue' = Tail(queue)
            /\ nextBox' = IF isNew THEN nextBox + 1 ELSE nextBox
            /\ boxMap' = [boxMap EXCEPT ![task.user] = box]
            /\ boxes' = IF isNew THEN AddBox(boxes, box) ELSE boxes
            /\ expired' = IF isNew THEN Append(expired, after)
                          ELSE [expired EXCEPT ![box] = after]
            /\ touched' = IF isNew THEN Append(touched, clock)
                          ELSE [touched EXCEPT ![box] = clock]
            /\ owner' = IF isNew THEN Append(owner, task.user) ELSE owner
            /\ given' = [given EXCEPT ![task.user] = box]
            /\ last' = [task |-> task.id, user |-> task.user, box |-> box, kind |-> answer,
                        escaped |-> (outcome = "raise" \/ called = "raise")]
            /\ IF outcome = "raise"
               THEN /\ called = "ok"
                    /\ UNCHANGED <<lastCallback, numCallbacks, lastResponse>>
               ELSE /\ lastCallback' = task.id
                    /\ numCallbacks' = numCallbacks + 1
                    /\ lastResponse' = [lastResponse EXCEPT ![task.user] =
                                            [box |-> box, expires |-> after]]
    /\ UNCHANGED <<clock, ticks, nextTask, nextPurge, lastScan, purgeCalled, purged,
                   searchVars, historyVars>>

process == ProcessIdle \/ ProcessTask

InitChatVars ==
    /\ clock = 0
    /\ ticks = 0
    /\ queue = <<>>
    /\ nextTask = 1
    /\ boxMap = [u \in Users |-> NoBox]
    /\ boxes = {}
    /\ expired = <<>>
    /\ nextBox = 1
    /\ nextPurge = 0
    /\ touched = <<>>
    /\ owner = <<>>
    /\ given = [u \in Users |-> NoBox]
    /\ lastScan = -1
    /\ purgeCalled = -1
    /\ purged = {}
    /\ last = [task |-> 0, user |-> "", box |-> NoBox, kind |-> "", escaped |-> FALSE]
    /\ lastCallback = 0
    /\ numCallbacks = 0
    /\ lastResponse = [u \in Users |-> [box |-> NoBox, expires |-> 0]]

----------------------------------------------------------------------------
InitSearch ==
    /\ engines \in EngineLists
    /\ InitSearchVars
    /\ InitHistoryVars
    /\ InitChatVars

NextSearch ==
    \E p \in Sequential :
        \/ SearchStart(p)
        \/ SearchInvoke(p)
        \/ SearchCall(p)
        \/ SearchCheck(p)
        \/ SearchInsert(p)

SpecSearch == InitSearch /\ [][NextSearch]_vars

\* the engines of the box whose dispatches overlap
OverlapEngines == <<1, 2, 3>>

\* what an engine call of an overlapping dispatch returns: success, failure,
\* the cancellation code
OverlapOutcomes == {o \in EngineOutcomes : ~o.raised /\ o.code \in {200, -404, CANCELLED_CODE}}

InitOverlap ==
    /\ engines = OverlapEngines
    /\ InitSearchVars
    /\ InitHistoryVars
    /\ InitChatVars

NextOverlap ==
    \/ \E keywords \in Keywords : AskQuestion(keywords)
    \/ \E p \in Dispatches :
        \/ SearchBegin(p)
        \/ SearchInvoke(p)
        \/ \E outcome \in OverlapOutcomes : SearchReturn(p, outcome)
        \/ SearchCheck(p)
        \/ SearchInsert(p)

SpecOverlap == InitOverlap /\ [][NextOverlap]_vars

InitHistory ==
    /\ engines = <<>>
    /\ InitSearchVars
    /\ InitHistoryVars
    /\ InitChatVars

NextHistory ==
    \/ \E cmd \in {"cancel"} : add_command(cmd)
    \/ read_commands

SpecHistory == InitHistory /\ [][NextHistory]_vars

InitChat ==
    /\ engines = <<>>
    /\ InitSearchVars
    /\ InitHistoryVars
    /\ InitChatVars

NextChat ==
    \/ Tick
    \/ \E user \in Users : request(user)
    \/ process

SpecChat == InitChat /\ [][NextChat]_vars

----------------------------------------------------------------------------
\* Properties of the dispatcher (SpecSearch)

Done(p) == pc[p] = "done"

SuccessAt(p, k) == calls[p][k].code > 0
CancelAt(p, k) == calls[p][k].code = CANCELLED_CODE
FailureAt(p, k) == calls[p][k].code < 0 /\ calls[p][k].code # CANCELLED_CODE

Cancelled(p) == \E k \in DOMAIN calls[p] : CancelAt(p, k)
Succeeded(p) == \E k \in DOMAIN calls[p] : SuccessAt(p, k)
Exhausted(p) == Len(calls[p]) = count[p] /\ ~Succeeded(p) /\ ~Cancelled(p)

Failure(e) == [kind |-> "failure", agent |-> e]
Success(e) == [kind |-> "success", agent |-> e]
Crashes(p) == {k \in DOMAIN reports[p] : reports[p][k].kind = "crash"}

\* the engine reports a run of calls is due: a failure for each negative,
\* non-cancellation code, a success for a positive code, nothing otherwise
RECURSIVE EngineReports(_)
EngineReports(cs) ==
    IF cs = <<>> THEN <<>>
    ELSE LET c == Head(cs)
             rest == EngineReports(Tail(cs))
         IN  IF c.code > 0 THEN <<Success(c.engine)>> \o rest
             ELSE IF c.code < 0 /\ c.code # CANCELLED_CODE THEN <<Failure(c.engine)>> \o rest
             ELSE rest

\* C1: in a dispatch over a non-empty list in which no engine returns the
\* cancellation code and the engine at index i is the only one that returns
\* success, that engine is at index 0 after the dispatch and the other engines
\* keep their relative order.
C1_SuccessPromoted ==
    \A p \in Dispatches :
        (Done(p) /\ start[p] # <<>> /\ ~Cancelled(p)) =>
            \A i \in DOMAIN calls[p] :
                (SuccessAt(p, i) /\ \A k \in DOMAIN calls[p] : k # i => ~SuccessAt(p, k)) =>
                    /\ calls[p][i].engine = start[p][i]
                    /\ Len(final[p]) = Len(start[p])
                    /\ final[p][1] = start[p][i]
                    /\ Drop(final[p], start[p][i]) = Drop(start[p], start[p][i])

C1_Witness ==
    \E p \in Dispatches :
        /\ Done(p) /\ Len(start[p]) = 3 /\ Len(calls[p]) = 3
        /\ ~Cancelled(p) /\ SuccessAt(p, 3) /\ ~SuccessAt(p, 1) /\ ~SuccessAt(p, 2)
        /\ final[p] = <<start[p][3], start[p][1], start[p][2]>>

\* C2: once a dispatch observes the cancellation code it has returned false:
\* that call is its last engine call, the engine order is as it was at the
\* start, and the monitor got no failure for that engine, no crash, and no
\* no-result response was sent.
C2_CancelReturnsAtOnce ==
    \A p \in Dispatches : \A k \in DOMAIN calls[p] :
        CancelAt(p, k) =>
            /\ Done(p)
            /\ result[p] = "false"
            /\ k = Len(calls[p])
            /\ k < count[p] => Len(calls[p]) < count[p]
            /\ final[p] = start[p]
            /\ reports[p] = EngineReports(SubSeq(calls[p], 1, k - 1))
            /\ Crashes(p) = {}
            /\ responded[p] = 0

C2_Witness ==
    \E p \in Dispatches :
        /\ Done(p) /\ count[p] = 3 /\ Len(calls[p]) = 2
        /\ FailureAt(p, 1) /\ CancelAt(p, 2)
        /\ result[p] = "false"

\* C3: if every engine of a non-empty list returns (or is mapped to) a negative
\* code other than the cancellation code, the dispatch returns false and
\* reports exactly one crash.
C3_AllFailedCrashOnce ==
    \A p \in Dispatches :
        (/\ Done(p) /\ count[p] > 0 /\ Len(calls[p]) = count[p]
         /\ \A k \in DOMAIN calls[p] : FailureAt(p, k)) =>
            /\ result[p] = "false"
            /\ Cardinality(Crashes(p)) = 1

C3_Witness ==
    \E p \in Dispatches :
        /\ Done(p) /\ count[p] = 3 /\ Len(calls[p]) = 3
        /\ \A k \in DOMAIN calls[p] : FailureAt(p, k)
        /\ calls[p][2].raised
        /\ Cardinality(Crashes(p)) = 1

\* the scenario of C4: engines [A,B,C] = <<1,2,3>>, A throws, B returns 0 or a
\* negative non-cancellation code, C returns success
ScenarioABC(p) ==
    /\ Done(p) /\ start[p] = <<1, 2, 3>> /\ Len(calls[p]) = 3
    /\ calls[p][1].raised
    /\ ~calls[p][2].raised /\ calls[p][2].code <= 0 /\ ~CancelAt(p, 2)
    /\ SuccessAt(p, 3)

\* C4 as stated: in the scenario the monitor receives failure(A), failure(B),
\* success(C), the dispatch returns true and the final order is [C,A,B].
C4_Original ==
    \A p \in Dispatches :
        ScenarioABC(p) =>
            /\ result[p] = "true"
            /\ reports[p] = <<Failure(1), Failure(2), Success(3)>>
            /\ final[p] = <<3, 1, 2>>

\* C4 amended: in the scenario the dispatch returns true and the final order
\* is [C,A,B]; the monitor receives failure(A), failure(B), success(C) when B
\* returns a negative code and only failure(A), success(C) when B returns 0.
\* In general a successful dispatch reports, in order, a failure for every
\* engine tried before the succeeding one that returned a negative code and
\* nothing for one that returned 0, then the success.
C4_ScenarioReports ==
    \A p \in Dispatches :
        /\ ScenarioABC(p) =>
            /\ result[p] = "true"
            /\ final[p] = <<3, 1, 2>>
            /\ reports[p] = IF calls[p][2].code < 0
                            THEN <<Failure(1), Failure(2), Success(3)>>
                            ELSE <<Failure(1), Success(3)>>
        /\ (Done(p) /\ Succeeded(p)) => reports[p] = EngineReports(calls[p])

C4_Witness ==
    \E p \in Dispatches :
        /\ ScenarioABC(p)
        /\ calls[p][2].code = 0
        /\ reports[p] = <<Failure(1), Success(3)>>
        /\ final[p] = <<3, 1, 2>>

\* C5 as stated: in a dispatch that is not cancelled the no-result response is
\* sent exactly when every engine was tried and none returned success; a crash
\* is reported only when every engine returned a failure code.
C5_Original ==
    \A p \in Dispatches :
        (Done(p) /\ ~Cancelled(p)) =>
            /\ responded[p] = 1 <=> Exhausted(p)
            /\ responded[p] \in {0, 1}
            /\ Crashes(p) # {} =>
                (Len(calls[p]) = count[p] /\ \A k \in DOMAIN calls[p] : FailureAt(p, k))

\* C5 amended: the same for a dispatch over a non-empty engine list (over an
\* empty list _search returns false before the loop and sends nothing).
C5_NoResultOnExhaustion ==
    \A p \in Dispatches :
        (Done(p) /\ ~Cancelled(p) /\ count[p] > 0) =>
            /\ responded[p] = 1 <=> Exhausted(p)
            /\ responded[p] \in {0, 1}
            /\ Crashes(p) # {} =>
                (Len(calls[p]) = count[p] /\ \A k \in DOMAIN calls[p] : FailureAt(p, k))
            /\ (Exhausted(p) /\ \E k \in DOMAIN calls[p] : calls[p][k].code = 0) =>
                Crashes(p) = {}

C5_Witness ==
    \E p \in Dispatches :
        /\ Done(p) /\ count[p] = 3 /\ Exhausted(p)
        /\ FailureAt(p, 1) /\ calls[p][2].code = 0 /\ FailureAt(p, 3)
        /\ responded[p] = 1 /\ Crashes(p) = {}

----------------------------------------------------------------------------
\* Properties of the history (SpecHistory)

\* C6: the history never holds more than MAX_LENGTH entries: it is the last
\* (up to) MAX_LENGTH commands in insertion order.
C6_HistoryBounded ==
    /\ Len(commands) <= MAX_LENGTH
    /\ \A k \in DOMAIN commands : k > 1 => commands[k].when = commands[k - 1].when + 1

----------------------------------------------------------------------------
\* Properties of the chat client (SpecChat)

\* the step is a process() that popped a task
TaskStep == queue # <<>> /\ queue' = Tail(queue)

\* the step invoked a callback
CallbackStep == numCallbacks' # numCallbacks

\* C7: every task process() has popped (its session is always resolved) has had
\* its callback invoked exactly once, with the answer or the 404 fallback.
C7_CallbackOncePerTask ==
    /\ numCallbacks = (nextTask - 1) - Len(queue)
    /\ last.task # 0 => (last.kind \in {"answer", "404"} /\ lastCallback = last.task)

\* C8: get_box returns for a user the instance its previous call returned,
\* whatever the time and whatever purge calls were made, unless a scanning
\* purge has removed that instance, and then it returns an instance never
\* returned before; purge removes an instance only in a scan made after the
\* instance's expiry time.
C8_SameBoxUntilPurged ==
    [][/\ TaskStep =>
            LET user == Head(queue).user
            IN  /\ last'.user = user /\ last'.box = given'[user]
                /\ IF given[user] # NoBox /\ given[user] \notin purged
                   THEN given'[user] = given[user]
                   ELSE /\ given'[user] \notin 1..(nextBox - 1)
                        /\ given'[user] \notin purged'
                        /\ \A other \in Users \ {user} : given[other] # given'[user]
       /\ \A b \in purged' \ purged :
            /\ clock > expired[b]
            /\ lastScan' = clock /\ lastScan < clock
            /\ queue = <<>>
       /\ purged \subseteq purged'
      ]_vars

C8_Witness ==
    \E user \in Users : \E b \in purged :
        /\ owner[b] = user
        /\ given[user] \notin purged \cup {NoBox, b}
        /\ last.user = user /\ last.box = given[user]

\* C9: callbacks are invoked in the order in which their requests were
\* enqueued (task ids count the enqueues); a request enqueued no later than
\* the expiry the user's session had after answering the user's previous
\* request is answered by that same session.
C9_FifoSameSession ==
    /\ [](\A i, j \in DOMAIN queue : i < j => queue[i].id < queue[j].id)
    /\ [](\A i \in DOMAIN queue : queue[i].id > lastCallback)
    /\ [][CallbackStep =>
            /\ queue # <<>>
            /\ numCallbacks' = numCallbacks + 1
            /\ lastCallback' = Head(queue).id
            /\ lastCallback' > lastCallback
            /\ LET user == Head(queue).user
                   prev == lastResponse[user]
               IN  (prev.box # NoBox /\ Head(queue).at <= prev.expires) =>
                        lastResponse'[user].box = prev.box
      ]_vars

C9_Witness ==
    /\ numCallbacks = 2 /\ lastCallback = 2 /\ nextBox = 2
    /\ last.task = 2 /\ last.box = 1
    /\ lastResponse[last.user].box = 1
    /\ clock > 0

\* C10: every ask, whatever the backend then does, leaves the session's expiry
\* at (time of the ask) + EXPIRES; so a session is expired only when more than
\* EXPIRES seconds have passed since the last ask on it.
C10_AskRefreshesExpiry ==
    \A b \in 1..(nextBox - 1) :
        /\ expired[b] = touched[b] + EXPIRES
        /\ clock > expired[b] => clock - touched[b] > EXPIRES

C10_Witness ==
    /\ last.task = 2 /\ last.kind = "raise" /\ nextBox = 2
    /\ clock > 0 /\ touched[last.box] = clock
    /\ expired[last.box] = clock + EXPIRES

\* the step is a call of purge (one made at the time of the previous call
\* changes nothing)
PurgeStep == purgeCalled' # purgeCalled

\* the step is a scan of purge
ScanStep == lastScan' # lastScan

\* C11 as stated: of two purge calls made less than PURGE_INTERVAL seconds
\* apart the second does not scan.
C11_Original ==
    [][(PurgeStep /\ purgeCalled # -1 /\ clock - purgeCalled < PURGE_INTERVAL) =>
            ~ScanStep]_vars

\* C11 amended: a purge call made less than PURGE_INTERVAL seconds after a
\* scanning call does not scan and changes nothing of the pool; a call made
\* PURGE_INTERVAL seconds or more after the last scan (or before any scan)
\* scans; so two scans are never less than PURGE_INTERVAL seconds apart.
C11_ScansRateLimited ==
    [][/\ (PurgeStep /\ lastScan # -1 /\ clock - lastScan < PURGE_INTERVAL) =>
            (~ScanStep /\ UNCHANGED <<boxes, boxMap, nextPurge, purged>>)
       /\ (PurgeStep /\ (lastScan = -1 \/ clock - lastScan >= PURGE_INTERVAL)) =>
            (lastScan' = clock /\ nextPurge' = clock + PURGE_INTERVAL)
       /\ ScanStep =>
            /\ PurgeStep /\ lastScan' = clock
            /\ lastScan = -1 \/ clock - lastScan >= PURGE_INTERVAL
      ]_vars

C11_Witness ==
    /\ lastScan # -1
    /\ purgeCalled > lastScan
    /\ purgeCalled - lastScan < PURGE_INTERVAL

\* C14: every session the user mapping holds is a member of the live set.
C14_MappedBoxesAreLive ==
    \A user \in Users : boxMap[user] # NoBox => boxMap[user] \in boxes

C14_Witness ==
    /\ purged # {}
    /\ \E user \in Users : boxMap[user] # NoBox /\ boxMap[user] \in boxes
    /\ \E user \in Users : boxMap[user] = NoBox /\ given[user] \in purged

\* C17: no fault escapes process(): neither a failure of the backend call nor
\* one of the callback leaves it.
C17_NoFaultEscapes == ~last.escaped

----------------------------------------------------------------------------
\* More properties of the dispatcher (SpecSearch)

NonCrashReports(p) == SelectSeq(reports[p], LAMBDA r : r.kind # "crash")
FailedCalls(p) == {k \in DOMAIN calls[p] : FailureAt(p, k)}

\* C16: when the first engine returns success the dispatch returns true, the
\* engine order is as it was, no other engine was invoked, and the monitor got
\* exactly one success report and no failure report.
C16_FirstEngineSuccess ==
    \A p \in Dispatches :
        (Done(p) /\ Len(calls[p]) >= 1 /\ SuccessAt(p, 1)) =>
            /\ result[p] = "true"
            /\ final[p] = start[p]
            /\ moved[p] = 0
            /\ Len(calls[p]) = 1
            /\ calls[p][1].engine = start[p][1]
            /\ reports[p] = <<Success(start[p][1])>>
            /\ responded[p] = 0

C16_Witness ==
    \E p \in Dispatches :
        /\ Done(p) /\ count[p] = 3 /\ Len(calls[p]) = 1 /\ SuccessAt(p, 1)
        /\ result[p] = "true" /\ final[p] = start[p]
        /\ reports[p] = <<Success(start[p][1])>>

\* C18: an engine that returns 0 is a silent try-next: the monitor gets no
\* success and no failure report for it, it is not counted as a failure, and
\* the dispatch goes on with the next engine of the list if there is one.
C18_ZeroIsSilentTryNext ==
    \A p \in Dispatches :
        /\ NonCrashReports(p) = EngineReports(calls[p])
        /\ pc[p] # "idle" => failed[p] = Cardinality(FailedCalls(p))
        /\ \A k \in DOMAIN calls[p] :
            (calls[p][k].code = 0 /\ k < count[p]) =>
                /\ Len(calls[p]) = k => result[p] = "none"
                /\ \/ Len(calls[p]) = k /\ index[p] = k /\ pc[p] \in {"loop", "call"}
                   \/ Len(calls[p]) > k /\ calls[p][k + 1].engine = start[p][k + 1]
                /\ pc[p] = "call" /\ Len(calls[p]) = k => engine[p] = start[p][k + 1]

C18_Witness ==
    \E p \in Dispatches :
        /\ Done(p) /\ count[p] = 3 /\ Len(calls[p]) = 3
        /\ calls[p][1].code = 0 /\ FailureAt(p, 2) /\ SuccessAt(p, 3)
        /\ reports[p] = <<Failure(start[p][2]), Success(start[p][3])>>
        /\ failed[p] = 1

\* C19: a dispatch returns true only if some engine returned success to it.
C19_TrueOnlyOnSuccess ==
    \A p \in Dispatches : result[p] = "true" => Succeeded(p)

----------------------------------------------------------------------------
\* Properties of a box whose dispatches overlap (SpecOverlap)

IsPermutation(list, of) ==
    /\ Len(list) = Len(of)
    /\ \A i \in DOMAIN of : \E j \in DOMAIN list : list[j] = of[i]

\* the states in which a dispatch is about to read the engine list
ReadsList(p) == pc[p] \in {"spawned", "loop", "check"}

\* C12: the engine a dispatch has moved to the front is the engine that
\* returned success to that dispatch, also when another dispatch reads or
\* reorders the list in between.
C12_PromotesOwnSuccess ==
    \A p \in Dispatches :
        moved[p] # 0 =>
            /\ Succeeded(p)
            /\ moved[p] = calls[p][Len(calls[p])].engine

\* C13: a dispatch whose Task was cancelled while an engine call was in
\* progress does nothing after that call returns: no further engine call, no
\* further monitor report, no reordering, no no-result response.
C13_StopsAtCallBoundary ==
    \A p \in Dispatches :
        atCancel[p] # NoSnapshot =>
            /\ Len(calls[p]) <= atCancel[p].calls
            /\ Len(calls[p]) = atCancel[p].calls => pc[p] \in {"done"}
            /\ Len(reports[p]) = atCancel[p].reports
            /\ responded[p] = atCancel[p].responded
            /\ moved[p] = atCancel[p].moved
            /\ pc[p] # "insert"

LiveTasks == tasks \ cancelled
AskStep == commands' # commands

\* C15: at most one Task created by the box is not cancelled, and it is the
\* current one; every non-empty query cancels the current Task, and a Task
\* that becomes current does so after the one before it was cancelled and
\* discarded.
C15_OneLiveTask ==
    /\ [](/\ Cardinality(LiveTasks) <= 1
          /\ LiveTasks = {boxTask} \ {NoTask})
    /\ [][/\ (AskStep /\ boxTask # NoTask) => (boxTask \in cancelled' /\ boxTask' # boxTask)
          /\ boxTask' # boxTask => AskStep
          /\ cancelled \subseteq cancelled'
         ]_vars

C15_Witness ==
    /\ boxTask # NoTask
    /\ Cardinality(tasks) >= 2
    /\ tasks \ {boxTask} \subseteq cancelled
    /\ \E p \in Dispatches : Running(p) /\ taskOf[p] \in cancelled
    /\ \E p \in Dispatches : Running(p) /\ taskOf[p] = boxTask

\* C20: whenever a dispatch is about to read the engine list, the list is a
\* permutation of the list the box was created with, and no dispatch reads
\* past the end of the list.
C20_ListIsPermutation ==
    \A p \in Dispatches :
        /\ ReadsList(p) => IsPermutation(engines, original)
        /\ result[p] # "error"

============================================================================
